---------------------------- MODULE Spec2Model ----------------------------
(***************************************************************************)
(* paseto_maker: the claim set (src/claims/mod.rs) and the token maker     *)
(* (src/maker/mod.rs) as a state machine.                                  *)
(*                                                                         *)
(* A caller owns one Claims value and one Maker.  The Claims value is      *)
(* built with the with_* setters and set_claim, handed to create_token,    *)
(* and the token string (possibly altered in transit) is presented to      *)
(* verify_token.  The token engine (rusty_paseto) and the key primitive    *)
(* (ed25519_dalek) are modelled symbolically at the places the crate       *)
(* calls them.                                                             *)
(***************************************************************************)
EXTENDS Integers, Sequences, FiniteSets, TLC

VARIABLES
    claims,     \* Claims.claims: the BTreeMap, as a sequence of <<key, value>> in key order
    last,       \* the most recent call: [op, key, arg, held, ret]
    keypair,    \* <<"Keypair", pair>>: what the latest Maker::new_keypair() returned
    maker,      \* <<"Maker", fields>>: what the latest Maker::new returned
    now,        \* the wall clock read by the token engine
    issuedAt,   \* the clock when create_token ran
    pc,         \* where the caller is: "build", "issued", "verified"
    token,      \* what create_token returned
    presented,  \* the token string handed to verify_token
    got,        \* what verify_token returned
    calls       \* what create_token did, in order: <<step, claim name>>

vars == <<claims, last, keypair, maker, now, issuedAt, pc, token, presented, got, calls>>

(***************************************************************************)
(* Bounds of the model.                                                    *)
(***************************************************************************)
MaxClaims == 2      \* a claim set holds at most this many names
MaxSeed == 5        \* secret seeds the key generator draws from

(***************************************************************************)
(* serde_json::Value, as <<tag, content>>.                                 *)
(***************************************************************************)
Null == <<"Null", 0>>
StringV(s) == <<"String", s>>
NumberV(n) == <<"Number", n>>
BoolV(b) == <<"Bool", b>>
ObjectV(f) == <<"Object", f>>

is_null(v) == v[1] = "Null"

\* Value::as_str: Some(s) for a string, None for every other kind.
None == <<"None", 0>>
Some(x) == <<"Some", x>>
as_str(v) == IF v[1] = "String" THEN Some(v[2]) ELSE None

(***************************************************************************)
(* Results.                                                                *)
(***************************************************************************)
Err(kind, detail) == <<"Err", <<kind, detail>>>>
OkUnit == <<"OkUnit", 0>>
IsErr(r) == r[1] = "Err"
ErrKind(r) == r[2][1]
ErrDetail(r) == r[2][2]

(***************************************************************************)
(* claims::reserved                                                        *)
(***************************************************************************)
ISSUER == "iss"
SUBJECT == "sub"
AUDIENCE == "aud"
EXPIRATION == "exp"
NOT_BEFORE == "nbf"
ISSUED_AT == "iat"
TOKEN_IDENTIFIER == "jti"

Reserved == {ISSUER, SUBJECT, AUDIENCE, EXPIRATION, NOT_BEFORE, ISSUED_AT, TOKEN_IDENTIFIER}
StringClaims == {ISSUER, SUBJECT, AUDIENCE, TOKEN_IDENTIFIER}
TimeClaims == {EXPIRATION, NOT_BEFORE, ISSUED_AT}
CustomNames == {"admin", "name"}
Names == Reserved \cup CustomNames

\* Ord for str on the names in use: byte order.
StrOrder == <<"admin", "aud", "exp", "iat", "iss", "jti", "name", "nbf", "sub">>
Rank(k) == CHOOSE i \in 1..Len(StrOrder) : StrOrder[i] = k
StrLess(a, b) == Rank(a) < Rank(b)

(***************************************************************************)
(* Time.  Instants are whole hours of one day; Rfc3339Utc[i] is the text   *)
(* of instant i at offset +00:00.  Rfc3339Alt holds texts that name an     *)
(* instant at another offset.                                              *)
(***************************************************************************)
Rfc3339Utc == << "2027-09-18T01:00:00+00:00", "2027-09-18T02:00:00+00:00",
                 "2027-09-18T03:00:00+00:00", "2027-09-18T04:00:00+00:00",
                 "2027-09-18T05:00:00+00:00", "2027-09-18T06:00:00+00:00" >>
Rfc3339Alt == { <<"2027-09-18T08:00:00+02:00", 6>> }
Instants == 1..Len(Rfc3339Utc)

\* Parsing an RFC3339 text: Some(instant), or None for any other text.
ParseRfc3339(s) ==
    IF \E i \in Instants : Rfc3339Utc[i] = s
    THEN Some(CHOOSE i \in Instants : Rfc3339Utc[i] = s)
    ELSE IF \E a \in Rfc3339Alt : a[1] = s
         THEN Some((CHOOSE a \in Rfc3339Alt : a[1] = s)[2])
         ELSE None

\* Formatting an instant as the engine does for its default claims.
FormatRfc3339(i) == Rfc3339Utc[i]

Past == Rfc3339Utc[1]
Future == "2027-09-18T08:00:00+02:00"
NotADate == "not a date"

\* The instants at which the caller issues and verifies.
Clock == {2, 4}

(***************************************************************************)
(* BTreeMap<Arc<str>, Value>: a sequence of <<key, value>>, keys strictly  *)
(* ascending.                                                              *)
(***************************************************************************)
Keys(m) == {m[i][1] : i \in 1..Len(m)}

BTreeGet(m, k) ==
    IF \E i \in 1..Len(m) : m[i][1] = k
    THEN Some(m[CHOOSE i \in 1..Len(m) : m[i][1] = k][2])
    ELSE None

\* A map that keeps insertion order (a Vec of pairs, an IndexMap): a new key
\* goes to the end.
BTreeInsert_push(m, k, v) ==
    IF \E i \in 1..Len(m) : m[i][1] = k
    THEN [i \in 1..Len(m) |-> IF m[i][1] = k THEN <<k, v>> ELSE m[i]]
    ELSE Append(m, <<k, v>>)

\* BTreeMap::insert: replace the value of an equal key, or place the new
\* entry before the first greater key.
BTreeInsert(m, k, v) ==
    IF \E i \in 1..Len(m) : m[i][1] = k
    THEN [i \in 1..Len(m) |-> IF m[i][1] = k THEN <<k, v>> ELSE m[i]]
    ELSE LET n == Cardinality({i \in 1..Len(m) : StrLess(m[i][1], k)})
         IN  SubSeq(m, 1, n) \o << <<k, v>> >> \o SubSeq(m, n + 1, Len(m))

(***************************************************************************)
(* Claims                                                                  *)
(***************************************************************************)
\* Claims::new
new == << >>

\* Claims::iter: the map's own iterator.
iter(c) == c

\* f64 values with no JSON number: Number::from_f64 gives None for them.
NonFinite == {"NaN", "inf"}

\* serde_json::to_value of what a caller may pass to set_claim.  A caller
\* value is <<rust type, content>>.
to_value(x) ==
    CASE x[1] = "&str" -> <<"Ok", StringV(x[2])>>
      [] x[1] = "i32" -> <<"Ok", NumberV(x[2])>>
      [] x[1] = "bool" -> <<"Ok", BoolV(x[2])>>
      [] x[1] = "f64" -> <<"Ok", IF x[2] \in NonFinite THEN Null ELSE NumberV(x[2])>>
      [] x[1] = "()" -> <<"Ok", Null>>
      [] x[1] = "HashMap<(i32,i32),i32>" -> Err("SerializationError", "key must be a string")

\* set_claim without its is_null test.
set_claim_unchecked(c, key, value) ==
    LET r == to_value(value)
    IN  IF IsErr(r) THEN <<r, c>> ELSE <<OkUnit, BTreeInsert(c, key, r[2])>>

\* Claims::set_claim: <<result, claims after>>.
set_claim(c, key, value) ==
    LET r == to_value(value)
    IN  IF IsErr(r) THEN <<r, c>>
        ELSE IF is_null(r[2]) THEN <<Err("InvalidValue", "invalid value"), c>>
        ELSE <<OkUnit, BTreeInsert(c, key, r[2])>>

\* with_subject as entry(..).or_insert(..): a subject already held is kept.
with_subject_or_insert(c, text) ==
    IF SUBJECT \in Keys(c) THEN c ELSE BTreeInsert(c, SUBJECT, StringV(text))

\* Claims::with_subject .. with_token_identifier: insert the text as a string.
with_subject(c, text) == BTreeInsert(c, SUBJECT, StringV(text))
with_issuer(c, text) == BTreeInsert(c, ISSUER, StringV(text))
with_audience(c, text) == BTreeInsert(c, AUDIENCE, StringV(text))
with_expiration(c, text) == BTreeInsert(c, EXPIRATION, StringV(text))
with_not_before(c, text) == BTreeInsert(c, NOT_BEFORE, StringV(text))
with_issued_at(c, text) == BTreeInsert(c, ISSUED_AT, StringV(text))
with_token_identifier(c, text) == BTreeInsert(c, TOKEN_IDENTIFIER, StringV(text))

\* serde_json::from_value::<T>(value).ok()
from_value(T, v) ==
    CASE T = "String" -> IF v[1] = "String" THEN Some(v[2]) ELSE None
      [] T = "bool" -> IF v[1] = "Bool" THEN Some(v[2]) ELSE None
      [] T = "i64" -> IF v[1] = "Number" THEN Some(v[2]) ELSE None
      [] T = "DateTime<Utc>" -> IF v[1] = "String" THEN ParseRfc3339(v[2]) ELSE None

\* get_claim handing out the stored content whatever T is.
get_claim_untyped(c, T, key) ==
    LET e == BTreeGet(c, key)
    IN  IF e[1] = "None" THEN None ELSE Some(e[2][2])

\* Claims::get_claim::<T>
get_claim(c, T, key) ==
    LET e == BTreeGet(c, key)
    IN  IF e[1] = "None" THEN None ELSE from_value(T, e[2])

get_subject(c) == get_claim(c, "String", SUBJECT)
get_issuer(c) == get_claim(c, "String", ISSUER)
get_audience(c) == get_claim(c, "String", AUDIENCE)
get_expiration(c) == get_claim(c, "DateTime<Utc>", EXPIRATION)
get_not_before(c) == get_claim(c, "DateTime<Utc>", NOT_BEFORE)
get_issued_at(c) == get_claim(c, "DateTime<Utc>", ISSUED_AT)
get_token_identifier(c) == get_claim(c, "String", TOKEN_IDENTIFIER)

(***************************************************************************)
(* ed25519_dalek, symbolically.  Key bytes are <<seed, public half>>; a    *)
(* signature names the seed that made it and the message it covers.        *)
(***************************************************************************)
Seeds == 1..MaxSeed
verifying_key(seed) == 100 + ((7 * seed) % 11)
to_keypair_bytes(seed) == <<seed, verifying_key(seed)>>

\* SigningKey::from_keypair_bytes: the public half must be the seed's.
from_keypair_bytes(bytes) ==
    IF bytes[2] = verifying_key(bytes[1])
    THEN <<"Ok", bytes[1]>>
    ELSE Err("SignatureError", "Mismatched Keypair detected")

Sign(private_key, msg) == <<private_key[1], msg>>
Verify(public_key, msg, sig) == verifying_key(sig[1]) = public_key /\ sig[2] = msg

(***************************************************************************)
(* Maker<V4, Public>                                                       *)
(***************************************************************************)
NoMaker == <<"NoMaker", 0>>

\* Maker::new
MakerNew(private_key) ==
    LET k == from_keypair_bytes(private_key)
    IN  IF IsErr(k) THEN Err("InvalidKey", ErrDetail(k))
        ELSE <<"Maker", [private_key |-> to_keypair_bytes(k[2]),
                         public_key |-> verifying_key(k[2]),
                         public_key_bytes |-> verifying_key(k[2])]>>

\* new_keypair returning the 32 secret bytes twice instead of the keypair bytes.
new_keypair_secret_only(seed) == <<<<seed, seed>>, verifying_key(seed)>>

\* Maker::new_keypair, the generator having drawn `seed`.
new_keypair(seed) == <<to_keypair_bytes(seed), verifying_key(seed)>>

\* Maker::public_key_as_bytes
public_key_as_bytes(m) == m[2].public_key_bytes

(***************************************************************************)
(* The token engine (rusty_paseto), as create_token and verify_token use   *)
(* it.                                                                     *)
(***************************************************************************)
HEADER == "v4.public."
OneHour == 1

\* The JSON text of a value, and its reading back.
JsonEncode(v) ==
    CASE v[1] = "String" -> <<"str", v[2]>>
      [] v[1] = "Number" -> <<"num", v[2]>>
      [] v[1] = "Bool" -> <<"lit", IF v[2] THEN "true" ELSE "false">>
      [] v[1] = "Null" -> <<"lit", "null">>

JsonDecode(j) ==
    CASE j[1] = "str" -> StringV(j[2])
      [] j[1] = "num" -> NumberV(j[2])
      [] j[1] = "lit" -> IF j[2] = "null" THEN Null ELSE BoolV(j[2] = "true")

\* PasetoBuilder::default(): exp one hour from now, iat and nbf now.
PasetoBuilder_default(t) ==
    [claims |-> [k \in TimeClaims |->
                    IF k = EXPIRATION THEN StringV(FormatRfc3339(t + OneHour))
                    ELSE StringV(FormatRfc3339(t))],
     top_level_claims |-> {},
     dup_top_level_found |-> FALSE]

\* PasetoBuilder::set_claim
builder_set_claim(b, k, v) ==
    [claims |-> [x \in DOMAIN b.claims \cup {k} |-> IF x = k THEN v ELSE b.claims[x]],
     top_level_claims |-> b.top_level_claims \cup {k},
     dup_top_level_found |-> b.dup_top_level_found \/ k \in b.top_level_claims]

\* PasetoBuilder::build
builder_build(b, private_key) ==
    IF b.dup_top_level_found
    THEN Err("DuplicateTopLevelPayloadClaim", "duplicate")
    ELSE LET payload == [k \in DOMAIN b.claims |-> JsonEncode(b.claims[k])]
         IN  <<"OkToken", [header |-> HEADER, payload |-> payload,
                           sig |-> Sign(private_key, <<HEADER, payload>>)]>>

\* IssuedAtClaim / NotBeforeClaim / ExpirationClaim ::try_from(&str)
TimeClaim_try_from(s) ==
    IF ParseRfc3339(s)[1] = "Some" THEN <<"Ok", StringV(s)>>
    ELSE Err("RFC3339Date", s)

\* CustomClaim::try_from((key, value)): reserved keys are refused.
CustomClaim_try_from(key, value) ==
    IF key \in Reserved THEN Err("Reserved", key) ELSE <<"Ok", value>>

\* PasetoParser::default().parse(token, public_key) at instant t.
parser_parse(tok, public_key, t) ==
    IF tok.header # HEADER THEN Err("WrongHeader", "The token header is invalid")
    ELSE IF ~Verify(public_key, <<tok.header, tok.payload>>, tok.sig)
    THEN Err("InvalidSignature", "The token signature could not be verified")
    ELSE LET json == [k \in DOMAIN tok.payload |-> JsonDecode(tok.payload[k])]
             timeOf(k) == IF as_str(json[k])[1] = "Some"
                          THEN ParseRfc3339(as_str(json[k])[2]) ELSE None
         IN  IF EXPIRATION \notin DOMAIN json \/ timeOf(EXPIRATION)[1] = "None"
             THEN Err("Unexpected", "Could not convert claim 'exp'")
             ELSE IF timeOf(EXPIRATION)[2] < t
             THEN Err("Expired", "The token is expired")
             ELSE IF NOT_BEFORE \notin DOMAIN json \/ timeOf(NOT_BEFORE)[1] = "None"
             THEN Err("Unexpected", "Could not convert claim 'nbf'")
             ELSE IF t < timeOf(NOT_BEFORE)[2]
             THEN Err("UseBeforeAvailable", "The token cannot be used yet")
             ELSE <<"Ok", ObjectV(json)>>

\* impl From<Value> for Claims: an object's entries collected into the map,
\* anything else an empty map.
RECURSIVE collect(_, _)
collect(f, S) ==
    IF S = {} THEN new
    ELSE LET k == CHOOSE x \in S : TRUE
         IN  BTreeInsert(collect(f, S \ {k}), k, f[k])

\* The conversion with its arms swapped: nothing is collected.
Claims_from_nothing(value) == new

Claims_from(value) ==
    IF value[1] = "Object" THEN collect(value[2], DOMAIN value[2]) ELSE new

\* The arms of create_token with value.to_string() in place of their tests.
StringArm_to_string(value, message) ==
    <<"Ok", StringV(IF value[1] = "String" THEN value[2] ELSE "to_string")>>

TimeArm_unparsed(value, message) ==
    IF as_str(value)[1] = "Some" THEN <<"Ok", StringV(as_str(value)[2])>>
    ELSE Err("InvalidClaim", message)

CustomArm_to_string(key, value) ==
    <<"Ok", StringV(IF value[1] = "String" THEN value[2] ELSE "to_string")>>

\* Maker::create_token, one arm of the match: the claim handed to the
\* builder, or the error returned.
StringArm(value, message) ==
    IF as_str(value)[1] = "Some" THEN <<"Ok", StringV(as_str(value)[2])>>
    ELSE Err("InvalidClaim", message)

TimeArm(value, message) ==
    IF as_str(value)[1] = "Some"
    THEN LET c == TimeClaim_try_from(as_str(value)[2])
         IN  IF IsErr(c) THEN Err("ClaimError", <<"InvalidClaim", c[2]>>) ELSE c
    ELSE Err("InvalidClaim", message)

CustomArm(key, value) ==
    LET c == CustomClaim_try_from(key, value)
    IN  IF IsErr(c) THEN Err("InvalidClaim", ErrKind(c)) ELSE c

match_key(key, value) ==
    CASE key = ISSUER -> StringArm(value, "Invalid issuer claim")
      [] key = AUDIENCE -> StringArm(value, "Invalid audience claim")
      [] key = SUBJECT -> StringArm(value, "Invalid subject claim")
      [] key = ISSUED_AT -> TimeArm(value, "Invalid issued at claim")
      [] key = NOT_BEFORE -> TimeArm(value, "Invalid not before claim")
      [] key = EXPIRATION -> TimeArm(value, "Invalid expiration claim")
      [] key = TOKEN_IDENTIFIER -> StringArm(value, "Invalid token identifier claim")
      [] OTHER -> CustomArm(key, value)

\* The loop without its early returns: every claim is matched, and the
\* error of the last invalid one is returned.
RECURSIVE create_loop_all(_, _, _)
create_loop_all(it, i, builder) ==
    IF i > Len(it) THEN <<"Ok", builder>>
    ELSE LET r == match_key(it[i][1], it[i][2])
             rest == create_loop_all(it, i + 1,
                         IF IsErr(r) THEN builder
                         ELSE builder_set_claim(builder, it[i][1], r[2]))
         IN  IF IsErr(rest) \/ ~IsErr(r) THEN rest ELSE r

\* The for loop of create_token over claims.iter(), from entry i on.
RECURSIVE create_loop(_, _, _)
create_loop(it, i, builder) ==
    IF i > Len(it) THEN <<"Ok", builder>>
    ELSE LET r == match_key(it[i][1], it[i][2])
         IN  IF IsErr(r) THEN r
             ELSE create_loop(it, i + 1, builder_set_claim(builder, it[i][1], r[2]))

\* Maker::create_token at instant t.
create_token(m, c, t) ==
    LET r == create_loop(iter(c), 1, PasetoBuilder_default(t))
    IN  IF IsErr(r) THEN r
        ELSE LET b == builder_build(r[2], m[2].private_key)
             IN  IF IsErr(b) THEN Err("TokenCreationFailed", ErrDetail(b)) ELSE b

\* verify_token reading the payload without the parser's checks.
verify_token_untrusted(m, tok, t) ==
    <<"OkClaims", Claims_from(ObjectV([k \in DOMAIN tok.payload |-> JsonDecode(tok.payload[k])]))>>

\* The iterations the for loop of create_token runs, from entry i on: it
\* returns from inside the iteration whose arm fails.
RECURSIVE loop_iterations(_, _)
loop_iterations(it, i) ==
    IF i > Len(it) THEN 0
    ELSE IF IsErr(match_key(it[i][1], it[i][2])) THEN 1
    ELSE 1 + loop_iterations(it, i + 1)

\* What Maker::create_token does, in order: the builder made, one match per
\* iteration run, and build (the signing) when the loop ran to its end.
create_calls(m, c, t) ==
    LET it == iter(c)
        n == loop_iterations(it, 1)
    IN  << <<"PasetoBuilder::default", "">> >>
        \o [j \in 1..n |-> <<"match", it[j][1]>>]
        \o (IF IsErr(create_loop(it, 1, PasetoBuilder_default(t))) THEN <<>>
            ELSE << <<"build", "">> >>)

\* verify_token with `?` on the parser's result: the engine's error is
\* returned as it is, not wrapped.
verify_token_unwrapped(m, tok, t) ==
    LET r == parser_parse(tok, m[2].public_key, t)
    IN  IF IsErr(r) THEN r ELSE <<"OkClaims", Claims_from(r[2])>>

\* Maker::verify_token at instant t.
verify_token(m, tok, t) ==
    LET r == parser_parse(tok, m[2].public_key, t)
    IN  IF IsErr(r) THEN Err("TokenCreationFailed", ErrDetail(r))
        ELSE <<"OkClaims", Claims_from(r[2])>>

(***************************************************************************)
(* What callers pass in.                                                   *)
(***************************************************************************)
Texts == {"1234567890"}
TimeTexts == {Past, Future, NotADate}
StoredValues == { <<"&str", "John Doe">>, <<"i32", 2>>, <<"bool", TRUE>> }
RefusedValues == { <<"f64", "NaN">>, <<"()", 0>>, <<"HashMap<(i32,i32),i32>", 0>> }
\* set_claim calls: a value that is stored, under any name; a value that is
\* refused, under a reserved and under a custom name.
SetCalls == (Names \X StoredValues) \cup ({SUBJECT, "admin"} \X RefusedValues)

\* Values handed to Claims::from: payload objects as the parser decodes
\* them (JSON admits null members), and a value that is no object.
DecodedPayloads ==
    { ObjectV([admin |-> Null]),
      ObjectV([sub |-> StringV("1234567890"), name |-> Null]),
      ObjectV([admin |-> BoolV(TRUE)]),
      StringV("John Doe") }

\* A token string with one place changed: the header, one claim's text, or
\* the signature (another key's, or this key's over another payload).
OtherSeed(seed) == CHOOSE s \in Seeds : s # seed
ForgedJson(j) == IF j[1] = "str" /\ j[2] = Future THEN <<"str", Past>> ELSE <<"str", Future>>
Tampered(tok) ==
    { [tok EXCEPT !.header = "v4.local."] }
    \cup { [tok EXCEPT !.payload[k] = ForgedJson(tok.payload[k])] : k \in DOMAIN tok.payload }
    \cup { [tok EXCEPT !.sig = <<OtherSeed(tok.sig[1]), tok.sig[2]>>] }
    \cup { [tok EXCEPT !.sig = <<tok.sig[1], <<HEADER, [k \in {} |-> 0]>>>>] }

(***************************************************************************)
(* The state machine.                                                      *)
(***************************************************************************)
NoArg == <<"none", 0>>
NoCall == [op |-> "none", key |-> "", arg |-> NoArg, held |-> FALSE, ret |-> OkUnit]
NoKeypair == <<"NoKeypair", 0>>
NoToken == <<"NoToken", 0>>
NoResult == <<"NoResult", 0>>

\* A call's record: `held` says whether the claim set held `key` before it.
Call(op, key, arg, held, ret) ==
    [op |-> op, key |-> key, arg |-> arg, held |-> held, ret |-> ret]

InitCommon ==
    /\ claims = new
    /\ last = NoCall
    /\ now = 1
    /\ issuedAt = 1
    /\ pc = "build"
    /\ token = NoToken
    /\ presented = NoToken
    /\ got = NoResult
    /\ calls = <<>>

\* A caller with a Maker made from a generated keypair and an empty claim set.
Init ==
    /\ InitCommon
    /\ keypair = <<"Keypair", new_keypair(1)>>
    /\ maker = MakerNew(new_keypair(1)[1])

\* A caller with no key material yet.
InitKey ==
    /\ InitCommon
    /\ keypair = NoKeypair
    /\ maker = NoMaker

CanWrite(k) == pc = "build" /\ (k \in Keys(claims) \/ Len(claims) < MaxClaims)

With(op, k, text, after) ==
    /\ CanWrite(k)
    /\ claims' = after
    /\ last' = Call(op, k, <<"&str", text>>, k \in Keys(claims), OkUnit)
    /\ UNCHANGED <<keypair, maker, now, issuedAt, pc, token, presented, got, calls>>

WithSubject == \E x \in Texts : With("with_subject", SUBJECT, x, with_subject(claims, x))
WithIssuer == \E x \in Texts : With("with_issuer", ISSUER, x, with_issuer(claims, x))
WithAudience == \E x \in Texts : With("with_audience", AUDIENCE, x, with_audience(claims, x))
WithTokenIdentifier ==
    \E x \in Texts : With("with_token_identifier", TOKEN_IDENTIFIER, x,
                          with_token_identifier(claims, x))
WithExpiration ==
    \E x \in TimeTexts : With("with_expiration", EXPIRATION, x, with_expiration(claims, x))
WithNotBefore ==
    \E x \in TimeTexts : With("with_not_before", NOT_BEFORE, x, with_not_before(claims, x))
WithIssuedAt ==
    \E x \in TimeTexts : With("with_issued_at", ISSUED_AT, x, with_issued_at(claims, x))

SetClaim ==
    \E call \in SetCalls :
        /\ CanWrite(call[1])
        /\ LET r == set_claim(claims, call[1], call[2])
           IN  /\ claims' = r[2]
               /\ last' = Call("set_claim", call[1], call[2], call[1] \in Keys(claims), r[1])
        /\ UNCHANGED <<keypair, maker, now, issuedAt, pc, token, presented, got, calls>>

CreateToken ==
    /\ pc = "build"
    /\ maker[1] = "Maker"
    /\ \E t \in Clock :
        /\ now' = t
        /\ issuedAt' = t
        /\ token' = create_token(maker, claims, t)
        /\ calls' = create_calls(maker, claims, t)
    /\ pc' = "issued"
    /\ last' = NoCall
    /\ UNCHANGED <<claims, keypair, maker, presented, got>>

VerifyToken ==
    /\ pc = "issued"
    /\ token[1] = "OkToken"
    /\ \E t \in Clock, tok \in {token[2]} \cup Tampered(token[2]) :
        /\ t >= now
        /\ now' = t
        /\ presented' = <<"Token", tok>>
        /\ got' = verify_token(maker, tok, t)
    /\ pc' = "verified"
    /\ UNCHANGED <<claims, last, keypair, maker, issuedAt, token, calls>>

NewKeypair ==
    /\ \E s \in Seeds : keypair' = <<"Keypair", new_keypair(s)>>
    /\ last' = Call("new_keypair", "", NoArg, FALSE, OkUnit)
    /\ UNCHANGED <<claims, maker, now, issuedAt, pc, token, presented, got, calls>>

\* Key bytes a caller may hand to Maker::new: the generated private key, or
\* any 64 bytes.
KeyInputs ==
    (IF keypair[1] = "Keypair" THEN {keypair[2][1]} ELSE {})
    \cup {<<s, verifying_key(p)>> : s \in Seeds, p \in Seeds}

NewMaker ==
    /\ \E bytes \in KeyInputs :
        /\ maker' = MakerNew(bytes)
        /\ last' = Call("new", "", <<"bytes", bytes>>, FALSE, OkUnit)
    /\ UNCHANGED <<claims, keypair, now, issuedAt, pc, token, presented, got, calls>>

Build ==
    \/ WithSubject \/ WithIssuer \/ WithAudience \/ WithTokenIdentifier
    \/ WithExpiration \/ WithNotBefore \/ WithIssuedAt
    \/ SetClaim

Next == Build \/ CreateToken \/ VerifyToken
Spec == Init /\ [][Next]_vars

\* Claims::from(value): the claim set is replaced by the conversion.
FromValue ==
    /\ pc = "build"
    /\ \E v \in DecodedPayloads :
        /\ claims' = Claims_from(v)
        /\ last' = Call("from", "", <<"Value", v>>, FALSE, OkUnit)
    /\ UNCHANGED <<keypair, maker, now, issuedAt, pc, token, presented, got, calls>>

\* The caller of Spec who may also start from a converted value.
NextFrom == FromValue \/ Build \/ CreateToken \/ VerifyToken
SpecFrom == Init /\ [][NextFrom]_vars

NextClaims == Build
SpecClaims == Init /\ [][NextClaims]_vars

NextKey == NewKeypair \/ NewMaker
SpecKey == InitKey /\ [][NextKey]_vars

(***************************************************************************)
(* Vocabulary of the properties.                                           *)
(***************************************************************************)
\* The value under reserved name k has the shape create_token accepts.
ShapeOk(k, v) ==
    /\ k \in StringClaims => v[1] = "String"
    /\ k \in TimeClaims => (v[1] = "String" /\ ParseRfc3339(v[2])[1] = "Some")

AllShapesOk(c) == \A i \in 1..Len(c) : ShapeOk(c[i][1], c[i][2])
ReservedOnlyValid(c) == AllShapesOk(c) /\ Keys(c) \subseteq Reserved
NoEarlierInvalid(c, k) ==
    \A i \in 1..Len(c) : StrLess(c[i][1], k) => ShapeOk(c[i][1], c[i][2])

\* The token handed to verify_token is the one create_token returned.
Untampered ==
    /\ token[1] = "OkToken"
    /\ presented[1] = "Token"
    /\ presented[2] = token[2]

\* The instants the issued token carries as exp and nbf: the claim set's own,
\* or the builder's defaults.
ExpOf(c) ==
    IF EXPIRATION \in Keys(c) THEN ParseRfc3339(BTreeGet(c, EXPIRATION)[2][2])[2]
    ELSE issuedAt + OneHour
NbfOf(c) ==
    IF NOT_BEFORE \in Keys(c) THEN ParseRfc3339(BTreeGet(c, NOT_BEFORE)[2][2])[2]
    ELSE issuedAt
TimeValid(c) == now <= ExpOf(c) /\ NbfOf(c) <= now

TypedGetter(c, k) ==
    CASE k = SUBJECT -> get_subject(c)
      [] k = ISSUER -> get_issuer(c)
      [] k = AUDIENCE -> get_audience(c)
      [] k = TOKEN_IDENTIFIER -> get_token_identifier(c)
      [] k = EXPIRATION -> get_expiration(c)
      [] k = NOT_BEFORE -> get_not_before(c)
      [] k = ISSUED_AT -> get_issued_at(c)

\* Every reserved claim of c reads back from g through its typed getter: the
\* text for a string claim, the instant of the text for a timestamp claim.
GettersEqual(g, c) ==
    \A i \in 1..Len(c) :
        LET k == c[i][1]
            text == c[i][2][2]
        IN  IF k \in TimeClaims THEN TypedGetter(g, k) = ParseRfc3339(text)
            ELSE TypedGetter(g, k) = Some(text)

RustType(v) ==
    CASE v[1] = "String" -> "String"
      [] v[1] = "Number" -> "i64"
      [] v[1] = "Bool" -> "bool"

\* Every claim of c reads back from g with get_claim at its stored type.
ClaimsEqual(g, c) ==
    \A i \in 1..Len(c) : get_claim(g, RustType(c[i][2]), c[i][1]) = Some(c[i][2][2])

IsNullCall(call) ==
    /\ call.op = "set_claim"
    /\ to_value(call.arg)[1] = "Ok"
    /\ is_null(to_value(call.arg)[2])

(***************************************************************************)
(* C1.  set_claim(k, v) with a value that serializes to null returns       *)
(* InvalidValue and leaves the claim set exactly as it was: a key that was *)
(* absent stays absent, a key that held a value keeps it.                  *)
(***************************************************************************)
C1_NullRejected ==
    [][IsNullCall(last') =>
          /\ IsErr(last'.ret)
          /\ ErrKind(last'.ret) = "InvalidValue"
          /\ claims' = claims]_vars

\* A NaN was offered for a name that holds a value, and was refused.
C1_Witness ==
    /\ last.op = "set_claim"
    /\ last.arg[1] = "f64"
    /\ last.held
    /\ IsErr(last.ret)
    /\ last.key \in Keys(claims)

(***************************************************************************)
(* C2.  As claimed: for a claim set of reserved claims with syntactically  *)
(* valid values, create_token succeeds and verify_token of the token, by   *)
(* the same Maker, returns a claim set whose typed getters equal the       *)
(* inputs.  (Read with verify_token called at once, before the clock       *)
(* moves.)                                                                 *)
(***************************************************************************)
C2_RoundTripAlways ==
    /\ (pc = "issued" /\ ReservedOnlyValid(claims)) => token[1] = "OkToken"
    /\ (pc = "verified" /\ Untampered /\ ReservedOnlyValid(claims) /\ now = issuedAt) =>
           (got[1] = "OkClaims" /\ GettersEqual(got[2], claims))

(***************************************************************************)
(* C2, amended.  For a claim set of reserved claims with syntactically     *)
(* valid values, create_token succeeds; and verify_token of the token, by  *)
(* the same Maker, at a time when the token's expiration (its exp claim,   *)
(* or one hour after issue when none was set) has not passed and its       *)
(* not-before (its nbf claim, or the time of issue) has come, returns a    *)
(* claim set whose typed getters equal the inputs.                         *)
(***************************************************************************)
C2_RoundTripWhileValid ==
    /\ (pc = "issued" /\ ReservedOnlyValid(claims)) => token[1] = "OkToken"
    /\ (pc = "verified" /\ Untampered /\ ReservedOnlyValid(claims) /\ TimeValid(claims)) =>
           (got[1] = "OkClaims" /\ GettersEqual(got[2], claims))

\* A subject and an expiration written at offset +02:00 came back.
C2_Witness ==
    /\ pc = "verified"
    /\ Untampered
    /\ Keys(claims) = {SUBJECT, EXPIRATION}
    /\ ReservedOnlyValid(claims)
    /\ got[1] = "OkClaims"
    /\ get_expiration(got[2]) = Some(6)

(***************************************************************************)
(* C3.  As claimed: claims stored under any names with string, number or   *)
(* boolean values are issued, and read back after verify_token with        *)
(* get_claim at the type they were stored with.  (Read with verify_token   *)
(* called at once, before the clock moves.)                                *)
(***************************************************************************)
StoredBySetClaim(c) ==
    \A i \in 1..Len(c) : \E x \in StoredValues : to_value(x)[2] = c[i][2]

C3_CustomRoundTripAlways ==
    /\ (pc = "issued" /\ StoredBySetClaim(claims)) => token[1] = "OkToken"
    /\ (pc = "verified" /\ Untampered /\ StoredBySetClaim(claims) /\ now = issuedAt) =>
           (got[1] = "OkClaims" /\ ClaimsEqual(got[2], claims))

(***************************************************************************)
(* C3, amended.  For claims stored with string, number or boolean values,  *)
(* where every reserved name among them holds a string (an RFC3339         *)
(* timestamp for exp, nbf, iat), create_token succeeds; and verify_token   *)
(* by the same Maker, while the token is within its validity time, yields  *)
(* a claim set in which get_claim of each name, at the type it was stored  *)
(* with, returns the stored value.                                         *)
(***************************************************************************)
C3_CustomRoundTripWhileValid ==
    /\ (pc = "issued" /\ AllShapesOk(claims)) => token[1] = "OkToken"
    /\ (pc = "verified" /\ Untampered /\ TimeValid(claims)) =>
           (got[1] = "OkClaims" /\ ClaimsEqual(got[2], claims))

\* sub as a string and admin as a boolean came back at their types.
C3_Witness ==
    /\ pc = "verified"
    /\ Untampered
    /\ got[1] = "OkClaims"
    /\ get_claim(claims, "bool", "admin") = Some(TRUE)
    /\ get_claim(got[2], "bool", "admin") = Some(TRUE)
    /\ get_claim(got[2], "String", SUBJECT) = Some("John Doe")

(***************************************************************************)
(* C4.  A token string that differs from the issued one in one place (the  *)
(* header, a claim of the payload, the signature) is never accepted:       *)
(* verify_token returns an error for it, not a claim set.                  *)
(***************************************************************************)
C4_TamperDetected ==
    (pc = "verified" /\ presented[2] # token[2]) => IsErr(got)

\* A token whose payload was changed was presented and refused.
C4_Witness ==
    /\ pc = "verified"
    /\ presented[2].payload # token[2].payload
    /\ presented[2].sig = token[2].sig
    /\ IsErr(got)

(***************************************************************************)
(* C5.  As claimed: whenever iat, nbf or exp holds a string that is no     *)
(* RFC3339 timestamp, create_token fails with the claim error wrapping     *)
(* that claim's parse error.                                               *)
(***************************************************************************)
BadTime(c, k) ==
    /\ k \in Keys(c)
    /\ BTreeGet(c, k)[2][1] = "String"
    /\ ParseRfc3339(BTreeGet(c, k)[2][2])[1] = "None"

IsParseError(r, text) ==
    /\ IsErr(r)
    /\ ErrKind(r) = "ClaimError"
    /\ ErrDetail(r) = <<"InvalidClaim", <<"RFC3339Date", text>>>>

C5_ParseErrorAlways ==
    \A k \in TimeClaims :
        (pc = "issued" /\ BadTime(claims, k)) =>
            IsParseError(token, BTreeGet(claims, k)[2][2])

(***************************************************************************)
(* C5, amended.  Whenever iat, nbf or exp holds a string that is no        *)
(* RFC3339 timestamp, create_token fails and produces no token; the error  *)
(* is the claim error wrapping that claim's parse error when no claim      *)
(* with a smaller name is invalid.                                         *)
(***************************************************************************)
C5_ParseErrorWhenFirst ==
    \A k \in TimeClaims :
        (pc = "issued" /\ BadTime(claims, k)) =>
            /\ IsErr(token)
            /\ NoEarlierInvalid(claims, k) =>
                   IsParseError(token, BTreeGet(claims, k)[2][2])

\* with_issued_at("not a date") was stored, and create_token refused it.
C5_Witness ==
    /\ pc = "issued"
    /\ claims = << <<ISSUED_AT, StringV(NotADate)>> >>
    /\ IsParseError(token, NotADate)

(***************************************************************************)
(* C6.  The iter() sequence depends only on the (name, value) pairs, not   *)
(* on the order they were inserted in: inserting the pairs of the claim    *)
(* set in any order gives the same sequence, and it is in ascending name   *)
(* order.                                                                  *)
(***************************************************************************)
RECURSIVE InsertAll(_, _, _)
InsertAll(pairs, order, n) ==
    IF n = 0 THEN new
    ELSE BTreeInsert(InsertAll(pairs, order, n - 1),
                     pairs[order[n]][1], pairs[order[n]][2])

C6_IterationOrder ==
    /\ \A order \in Permutations(1..Len(claims)) :
           iter(InsertAll(claims, order, Len(claims))) = iter(claims)
    /\ \A i \in 1..(Len(claims) - 1) : StrLess(iter(claims)[i][1], iter(claims)[i + 1][1])

\* The latest insertion added the name that iterates first.
C6_Witness ==
    /\ Len(claims) >= 2
    /\ last.ret[1] = "OkUnit"
    /\ ~last.held
    /\ last.key = iter(claims)[1][1]

(***************************************************************************)
(* C7.  Maker::new on the private key of a pair returned by new_keypair()  *)
(* succeeds, and public_key_as_bytes() of that Maker is the pair's public  *)
(* key.                                                                    *)
(***************************************************************************)
C7_KeyRoundTrip ==
    (last.op = "new" /\ keypair[1] = "Keypair" /\ last.arg[2] = keypair[2][1]) =>
        (maker[1] = "Maker" /\ public_key_as_bytes(maker) = keypair[2][2])

\* A Maker was made from a generated pair whose seed is not the first.
C7_Witness ==
    /\ last.op = "new"
    /\ keypair[1] = "Keypair"
    /\ last.arg[2] = keypair[2][1]
    /\ keypair[2][1][1] > 1
    /\ maker[1] = "Maker"

(***************************************************************************)
(* C8.  get_claim::<T>(name) is the stored value when name is present and  *)
(* its value is a T, and None both when name is absent and when the value  *)
(* is not a T; the typed getters inherit this (get_expiration is None      *)
(* when exp holds a string that is no timestamp).                          *)
(***************************************************************************)
Types == {"String", "bool", "i64", "DateTime<Utc>"}
Holds(k, kind) == \E i \in 1..Len(claims) : claims[i][1] = k /\ claims[i][2][1] = kind
Stored(k) == claims[CHOOSE i \in 1..Len(claims) : claims[i][1] = k][2][2]

C8_GetClaim ==
    /\ \A k \in Names :
        /\ k \notin Keys(claims) => \A T \in Types : get_claim(claims, T, k) = None
        /\ Holds(k, "String") =>
            /\ get_claim(claims, "String", k) = Some(Stored(k))
            /\ get_claim(claims, "bool", k) = None
            /\ get_claim(claims, "i64", k) = None
            /\ get_claim(claims, "DateTime<Utc>", k) = ParseRfc3339(Stored(k))
        /\ Holds(k, "Number") =>
            /\ get_claim(claims, "i64", k) = Some(Stored(k))
            /\ \A T \in Types \ {"i64"} : get_claim(claims, T, k) = None
        /\ Holds(k, "Bool") =>
            /\ get_claim(claims, "bool", k) = Some(Stored(k))
            /\ \A T \in Types \ {"bool"} : get_claim(claims, T, k) = None
    /\ \A k \in Reserved :
        TypedGetter(claims, k) =
            get_claim(claims, IF k \in TimeClaims THEN "DateTime<Utc>" ELSE "String", k)

\* exp holds a string that is no timestamp: present as a String, absent as
\* a timestamp, like the subject nobody set.
C8_Witness ==
    /\ get_claim(claims, "String", EXPIRATION) = Some(NotADate)
    /\ get_expiration(claims) = None
    /\ SUBJECT \notin Keys(claims)
    /\ get_subject(claims) = None

(***************************************************************************)
(* C9.  Through any sequence of set_claim and with_* calls each name       *)
(* occurs at most once, a successful write leaves its value under its      *)
(* name (whichever of with_* and set_claim wrote there before) and every   *)
(* other name as it was, and no name disappears.                           *)
(***************************************************************************)
C9_LastWriteWins ==
    [][/\ \A i, j \in 1..Len(claims') : claims'[i][1] = claims'[j][1] => i = j
       /\ Keys(claims) \subseteq Keys(claims')
       /\ last'.ret[1] = "OkUnit" =>
            /\ BTreeGet(claims', last'.key) = Some(to_value(last'.arg)[2])
            /\ Keys(claims') = Keys(claims) \cup {last'.key}
            /\ \A k \in Keys(claims) \ {last'.key} :
                   BTreeGet(claims', k) = BTreeGet(claims, k)
       /\ IsErr(last'.ret) => claims' = claims]_vars

\* with_subject wrote over a subject the set already held, beside another
\* name.
C9_Witness ==
    /\ last.op = "with_subject"
    /\ last.held
    /\ Len(claims) = 2
    /\ get_subject(claims) = Some("1234567890")

(***************************************************************************)
(* C10.  As claimed: whenever a reserved name holds a value that is no     *)
(* string, create_token fails with InvalidClaim naming that claim.         *)
(***************************************************************************)
Message(k) ==
    CASE k = ISSUER -> "Invalid issuer claim"
      [] k = SUBJECT -> "Invalid subject claim"
      [] k = AUDIENCE -> "Invalid audience claim"
      [] k = TOKEN_IDENTIFIER -> "Invalid token identifier claim"
      [] k = ISSUED_AT -> "Invalid issued at claim"
      [] k = NOT_BEFORE -> "Invalid not before claim"
      [] k = EXPIRATION -> "Invalid expiration claim"

NonString(c, k) == k \in Keys(c) /\ BTreeGet(c, k)[2][1] # "String"

IsInvalidClaim(r, message) ==
    /\ IsErr(r)
    /\ ErrKind(r) = "InvalidClaim"
    /\ ErrDetail(r) = message

C10_InvalidClaimAlways ==
    \A k \in Reserved :
        (pc = "issued" /\ NonString(claims, k)) => IsInvalidClaim(token, Message(k))

(***************************************************************************)
(* C10, amended.  Whenever a reserved name holds a value that is no        *)
(* string, create_token fails and produces no token; the error is          *)
(* InvalidClaim("Invalid <claim> claim") naming that claim when no claim   *)
(* with a smaller name is invalid.                                         *)
(***************************************************************************)
C10_InvalidClaimWhenFirst ==
    \A k \in Reserved :
        (pc = "issued" /\ NonString(claims, k)) =>
            /\ IsErr(token)
            /\ NoEarlierInvalid(claims, k) => IsInvalidClaim(token, Message(k))

\* jti holds a number beside a valid claim, and create_token names it.
C10_Witness ==
    /\ pc = "issued"
    /\ Len(claims) = 2
    /\ NonString(claims, TOKEN_IDENTIFIER)
    /\ IsInvalidClaim(token, "Invalid token identifier claim")

(***************************************************************************)
(* C11.  Whenever the token engine rejects the presented token string (a   *)
(* changed header, a signature that does not verify, an expiration that    *)
(* has passed, a not-before still to come), verify_token returns           *)
(* TokenCreationFailed carrying the engine's error text and no claim set;  *)
(* a claim set is returned only for the issued token within its validity   *)
(* time.                                                                   *)
(***************************************************************************)
Failed(r, text) ==
    /\ IsErr(r)
    /\ ErrKind(r) = "TokenCreationFailed"
    /\ ErrDetail(r) = text

SignatureOf(tok) == Sign(maker[2].private_key, <<tok.header, tok.payload>>)

C11_VerifyFailureWrapped ==
    pc = "verified" =>
        LET tok == presented[2]
        IN  /\ IsErr(got) => ErrKind(got) = "TokenCreationFailed"
            /\ tok.header # HEADER => Failed(got, "The token header is invalid")
            /\ (tok.header = HEADER /\ tok.sig # SignatureOf(tok)) =>
                   Failed(got, "The token signature could not be verified")
            /\ (Untampered /\ ExpOf(claims) < now) =>
                   Failed(got, "The token is expired")
            /\ (Untampered /\ now <= ExpOf(claims) /\ now < NbfOf(claims)) =>
                   Failed(got, "The token cannot be used yet")
            /\ got[1] = "OkClaims" => (Untampered /\ TimeValid(claims))

\* The issued token, presented unchanged after its default hour had passed,
\* was refused as expired.
C11_Witness ==
    /\ pc = "verified"
    /\ Untampered
    /\ EXPIRATION \notin Keys(claims)
    /\ issuedAt + OneHour < now
    /\ Failed(got, "The token is expired")

(***************************************************************************)
(* C12.  create_token takes the claims one at a time in ascending name     *)
(* order and stops at the first invalid one: the error returned is the one *)
(* of the invalid claim whose name sorts first, the claims after it are    *)
(* never matched, and the engine's build (the signing) is never reached.   *)
(***************************************************************************)
Invalid(c, i) == ~ShapeOk(c[i][1], c[i][2])

\* The position of the invalid claim whose name sorts first.
FirstInvalid(c) ==
    CHOOSE i \in 1..Len(c) :
        /\ Invalid(c, i)
        /\ \A j \in 1..Len(c) : Invalid(c, j) => (j = i \/ StrLess(c[i][1], c[j][1]))

\* r is the error create_token has for the claim at position i.
ErrorOf(r, c, i) ==
    IF c[i][2][1] = "String" THEN IsParseError(r, c[i][2][2])
    ELSE IsInvalidClaim(r, Message(c[i][1]))

Matched == { calls[j][2] : j \in { x \in 1..Len(calls) : calls[x][1] = "match" } }

C12_FirstInvalidStops ==
    (pc = "issued" /\ \E i \in 1..Len(claims) : Invalid(claims, i)) =>
        LET f == FirstInvalid(claims)
        IN  /\ ErrorOf(token, claims, f)
            /\ \A j \in 1..Len(calls) : calls[j][1] # "build"
            /\ Matched = { k \in Keys(claims) : k = claims[f][1] \/ StrLess(k, claims[f][1]) }
            /\ \A a, b \in 1..Len(calls) :
                   (a < b /\ calls[a][1] = "match" /\ calls[b][1] = "match") =>
                       StrLess(calls[a][2], calls[b][2])

\* Two invalid claims were held, aud (a number) and exp (no date): the
\* error names aud, exp was never matched and nothing was signed.
C12_Witness ==
    /\ pc = "issued"
    /\ Len(claims) = 2
    /\ NonString(claims, AUDIENCE)
    /\ BadTime(claims, EXPIRATION)
    /\ IsInvalidClaim(token, "Invalid audience claim")
    /\ calls = << <<"PasetoBuilder::default", "">>, <<"match", AUDIENCE>> >>

(***************************************************************************)
(* C13.  Null is never a stored claim value: in every claim set reachable  *)
(* by new(), by conversion from a decoded token payload, and by any        *)
(* sequence of set_claim / with_* calls, no claim name maps to null.       *)
(***************************************************************************)
NoNull(c) == \A i \in 1..Len(c) : ~is_null(c[i][2])

C13_NullNeverStored ==
    /\ NoNull(claims)
    /\ got[1] = "OkClaims" => NoNull(got[2])

\* A claim set with a null member was issued as a token, and verify_token
\* returned a claim set holding the null.
C13_NullReadBack ==
    /\ pc = "verified"
    /\ got[1] = "OkClaims"
    /\ ~NoNull(got[2])

=============================================================================
